---- MODULE Spec2Model ----
(***************************************************************************)
(* Aviation staffing platform backend: the work-history controller and    *)
(* its incrementally maintained Profile.totalFlightHours counter, the     *)
(* similarity scorer of getSimilarProfessionals, and generatePayroll.     *)
(*                                                                         *)
(* Every handler is an async function; each await of a record-store call  *)
(* is a point where another request may run, so a handler is one action   *)
(* per record-store call (the code after a call, up to the next call or   *)
(* the response, belongs to the same action).                             *)
(***************************************************************************)
EXTENDS Integers, Sequences, FiniteSets, TLC

\* ---------------------------------------------------------------- bounds
MaxRecs == 2       \* work-history records ever created
MaxReqs == 4       \* work-history requests ever issued
MaxHours == 2      \* largest hour figure a request body carries
MaxList == 2       \* longest skills / aircraftTypes list of a profile
MaxDate == 2       \* latest day a period or a payroll request names

\* All users holding a profile, and those issuing work-history requests.
Users == {"u1", "u2", "u3"}
Clients == {"u1", "u2"}
Slots == {1, 2}    \* requests that may be in flight at once
RecIds == 1..MaxRecs

VARIABLES
  records,           \* WorkHistory collection: id -> document
  totalFlightHours,  \* User collection: user -> Profile.totalFlightHours
  req,               \* in-flight request per slot: handler locals and position
  nextId,            \* next _id WorkHistory.create hands out
  issued,            \* requests issued so far
  profiles,          \* User collection: user -> role, skills, aircraftTypes
  searchResp,        \* last response of getSimilarProfessionals
  payrollResp,       \* last response of generatePayroll
  flightEntries,     \* WorkHistory: id -> flightRecords.aircraftTypes
  extras,            \* WorkHistory: id -> number of achievements and of ratings
  uploads,           \* per slot: the files the upload middleware stored
  before,            \* per slot: the stored state when the request arrived
  aircraftResp,      \* last response of searchByAircraftType
  statsResp          \* last response of getWorkHistoryStats

whVars == <<records, totalFlightHours, req, nextId, issued>>

matchVars == <<profiles, searchResp>>

payVars == <<payrollResp>>

\* What is stored with a record besides its hours, and what is kept per request.
docVars == <<flightEntries, extras>>

reqVars == <<uploads, before>>

rollupVars == <<aircraftResp, statsResp>>

vars == <<records, totalFlightHours, req, nextId, issued, profiles, searchResp,
          payrollResp, flightEntries, extras, uploads, before, aircraftResp,
          statsResp>>

\* ------------------------------------------------------- record store
NoRecord == [exists |-> FALSE, user |-> "", totalHours |-> 0,
             startDate |-> 0, endDate |-> 0]

\* A stored record; period {startDate, endDate} comes from the request body.
Record(user, hours, startDate, endDate) ==
  [exists |-> TRUE, user |-> user, totalHours |-> hours,
   startDate |-> startDate, endDate |-> endDate]

\* A new document's arrays: no aircraftTypes entries, no achievements, no
\* performance ratings.
NoEntries == <<>>

NoExtras == [achievements |-> 0, ratings |-> 0]

MatchesAnyOwner(id, user) == records[id].exists

\* WorkHistory.findOne({_id, user}) / the filter of findOneAndUpdate.
Matches(id, user) == records[id].exists /\ records[id].user = user

RECURSIVE SumOver(_, _)
SumOver(ids, user) ==
  IF ids = {} THEN 0
  ELSE LET i == CHOOSE x \in ids : TRUE
       IN (IF Matches(i, user) THEN records[i].totalHours ELSE 0)
          + SumOver(ids \ {i}, user)

\* Sum of flightRecords.totalHours over the user's stored records.
SumHours(user) == SumOver(RecIds, user)

\* User.findByIdAndUpdate(req.user.id, {$inc: {totalFlightHours: n}}): atomic.
IncTotalFlightHours(user, n) ==
  totalFlightHours' = [totalFlightHours EXCEPT ![user] = @ + n]

\* cleanupUploadedFiles(req.files), guarded by if (req.files): the files the
\* middleware stored for the request are removed.
cleanupUploadedFiles(r) ==
  uploads' = [uploads EXCEPT ![r] = IF @ = "stored" THEN "removed" ELSE @]

\* ------------------------------------------------------------ requests
Idle == [op |-> "none", user |-> "", id |-> 0, hasHours |-> FALSE, hours |-> 0,
         aircraft |-> "", pc |-> "idle", orig |-> 0, diff |-> 0, status |-> 0]

Free(r) == req[r].pc \in {"idle", "done"}

Quiescent == \A r \in Slots : Free(r)

Done(r, status) == [req[r] EXCEPT !.pc = "done", !.status = status]

Ops == {"createWorkHistory", "updateWorkHistory", "deleteWorkHistory", "addFlightRecord"}

FirstPc(op) ==
  CASE op = "createWorkHistory" -> "create"
    [] op = "updateWorkHistory" -> "upd_find"
    [] op = "deleteWorkHistory" -> "del_find"
    [] op = "addFlightRecord" -> "afr_update"
    [] op = "getWorkHistory" -> "get_find"
    [] op = "addAchievement" -> "ach_update"
    [] op = "addPerformanceRating" -> "rate_update"

\* Creations received whose WorkHistory.create has not run yet.
PendingCreates == Cardinality({q \in Slots : req[q].pc = "create"})

\* The stored state a request finds when it arrives.
Snapshot == [records |-> records, totalFlightHours |-> totalFlightHours,
             flightEntries |-> flightEntries, extras |-> extras]

NoSnapshot == <<>>

\* Routes behind uploadMultiple (part_001, lines 11-15, 21-25, 36-40).
UploadOps == {"createWorkHistory", "updateWorkHistory", "addAchievement"}

\* A request arrives: the router hands it to its handler. A body either
\* carries flightRecords.totalHours (hasHours) or has no flightRecords;
\* addFlightRecord always carries hours and an aircraftType; the other
\* routes read neither. On the upload routes the middleware has stored the
\* request's files, if it carries any (withFiles). track: whether the
\* stored state is remembered for the request.
ReceiveFrom(r, ops, users, aircraftTypes, withFiles, track) ==
  /\ Free(r)
  /\ issued < MaxReqs
  /\ \E op \in ops, u \in users, has \in BOOLEAN, h \in 0..MaxHours,
        a \in aircraftTypes, files \in withFiles :
       /\ op = "createWorkHistory" => nextId + PendingCreates <= MaxRecs
       /\ op = "addFlightRecord" => has
       /\ op \notin {"createWorkHistory", "updateWorkHistory", "addFlightRecord"} => ~has
       /\ ~has => h = 0
       /\ op # "addFlightRecord" => a = CHOOSE x \in aircraftTypes : TRUE
       /\ op \notin UploadOps => files = (CHOOSE x \in withFiles : TRUE)
       /\ \E id \in (IF op = "createWorkHistory" THEN {0} ELSE 1..(nextId - 1)) :
            req' = [req EXCEPT ![r] =
                      [Idle EXCEPT !.op = op, !.user = u, !.id = id,
                                   !.hasHours = has, !.hours = h,
                                   !.aircraft = IF op = "addFlightRecord" THEN a ELSE "",
                                   !.pc = FirstPc(op)]]
       /\ uploads' = [uploads EXCEPT ![r] =
                        IF files /\ op \in UploadOps THEN "stored" ELSE "none"]
  /\ before' = [before EXCEPT ![r] = IF track THEN Snapshot ELSE NoSnapshot]
  /\ issued' = issued + 1
  /\ UNCHANGED <<records, totalFlightHours, nextId, matchVars, payVars, docVars,
                 rollupVars>>

\* Requests without files that add hours on one aircraft type.
Receive(r) == ReceiveFrom(r, Ops, Clients, {"B737"}, {FALSE}, FALSE)

\* createWorkHistory, lines 23-35: WorkHistory.create, then the counter
\* update only if flightRecords?.totalHours is truthy.
CreateInsert(r) ==
  /\ req[r].pc = "create"
  /\ records' = [records EXCEPT ![nextId] =
                   Record(req[r].user, req[r].hours, 1, MaxDate)]
  /\ nextId' = nextId + 1
  /\ req' = [req EXCEPT ![r] =
               IF req[r].hours # 0
               THEN [req[r] EXCEPT !.pc = "create_inc", !.id = nextId]
               ELSE [Done(r, 201) EXCEPT !.id = nextId]]
  /\ flightEntries' = [flightEntries EXCEPT ![nextId] = NoEntries]
  /\ extras' = [extras EXCEPT ![nextId] = NoExtras]
  /\ UNCHANGED <<totalFlightHours, issued, matchVars, payVars, reqVars, rollupVars>>

CreateInc(r) ==
  /\ req[r].pc = "create_inc"
  /\ IncTotalFlightHours(req[r].user, req[r].hours)
  /\ req' = [req EXCEPT ![r] = Done(r, 201)]
  /\ UNCHANGED <<records, nextId, issued, matchVars, payVars, docVars, reqVars, rollupVars>>

hoursDifferenceSwapped(newHours, originalHours) == originalHours - newHours

\* updateWorkHistory, lines 116-126: hoursDifference.
hoursDifference(newHours, originalHours) == newHours - originalHours

\* updateWorkHistory, lines 97-107 and 132-137: read the original record;
\* when there is none, the uploaded files are removed and the error is
\* passed on.
UpdFind(r) ==
  /\ req[r].pc = "upd_find"
  /\ IF Matches(req[r].id, req[r].user)
     THEN /\ req' = [req EXCEPT ![r].pc = "upd_write",
                                ![r].orig = records[req[r].id].totalHours]
          /\ uploads' = uploads
     ELSE /\ req' = [req EXCEPT ![r] = Done(r, 404)]
          /\ cleanupUploadedFiles(r)
  /\ UNCHANGED <<records, totalFlightHours, nextId, issued, matchVars, payVars,
                 docVars, before, rollupVars>>

\* updateWorkHistory, lines 110-131: findOneAndUpdate (a no-op returning
\* null when the record is gone by now), then the decision to touch the
\* counter: only if the new totalHours is truthy and differs from the
\* original read earlier. A body with flightRecords {totalHours} sets the
\* whole flightRecords subdocument, so its aircraftTypes start empty again.
\* Bodies carry no user field: a record keeps the owner it was created with.
UpdWrite(r) ==
  /\ req[r].pc = "upd_write"
  /\ records' = IF Matches(req[r].id, req[r].user) /\ req[r].hasHours
                THEN [records EXCEPT ![req[r].id].totalHours = req[r].hours]
                ELSE records
  /\ flightEntries' = IF Matches(req[r].id, req[r].user) /\ req[r].hasHours
                      THEN [flightEntries EXCEPT ![req[r].id] = NoEntries]
                      ELSE flightEntries
  /\ LET d == hoursDifference(req[r].hours, req[r].orig)
     IN req' = [req EXCEPT ![r] =
                  IF req[r].hasHours /\ req[r].hours # 0 /\ d # 0
                  THEN [req[r] EXCEPT !.pc = "upd_inc", !.diff = d]
                  ELSE Done(r, 200)]
  /\ UNCHANGED <<totalFlightHours, nextId, issued, matchVars, payVars, extras,
                 reqVars, rollupVars>>

UpdInc(r) ==
  /\ req[r].pc = "upd_inc"
  /\ IncTotalFlightHours(req[r].user, req[r].diff)
  /\ req' = [req EXCEPT ![r] = Done(r, 200)]
  /\ UNCHANGED <<records, nextId, issued, matchVars, payVars, docVars, reqVars, rollupVars>>

\* deleteWorkHistory, lines 143-157: read the record; decrement only if its
\* totalHours is truthy.
DelFind(r) ==
  /\ req[r].pc = "del_find"
  /\ req' = [req EXCEPT ![r] =
               IF Matches(req[r].id, req[r].user)
               THEN [req[r] EXCEPT !.orig = records[req[r].id].totalHours,
                                   !.pc = IF records[req[r].id].totalHours # 0
                                          THEN "del_dec" ELSE "del_remove"]
               ELSE Done(r, 404)]
  /\ UNCHANGED <<records, totalFlightHours, nextId, issued, matchVars, payVars, docVars, reqVars, rollupVars>>

DelDec(r) ==
  /\ req[r].pc = "del_dec"
  /\ IncTotalFlightHours(req[r].user, -req[r].orig)
  /\ req' = [req EXCEPT ![r].pc = "del_remove"]
  /\ UNCHANGED <<records, nextId, issued, matchVars, payVars, docVars, reqVars, rollupVars>>

\* deleteWorkHistory, lines 159-164: workHistory.remove() deletes by _id and
\* succeeds whether or not the document is still stored.
DelRemove(r) ==
  /\ req[r].pc = "del_remove"
  /\ records' = [records EXCEPT ![req[r].id] = NoRecord]
  /\ flightEntries' = [flightEntries EXCEPT ![req[r].id] = NoEntries]
  /\ extras' = [extras EXCEPT ![req[r].id] = NoExtras]
  /\ req' = [req EXCEPT ![r] = Done(r, 200)]
  /\ UNCHANGED <<totalFlightHours, nextId, issued, matchVars, payVars, reqVars,
                 rollupVars>>

\* addFlightRecord, lines 175-189: $push of {aircraft, hours} onto
\* flightRecords.aircraftTypes and $inc of the record's totalHours, in one
\* findOneAndUpdate.
AfrUpdate(r) ==
  /\ req[r].pc = "afr_update"
  /\ IF Matches(req[r].id, req[r].user)
     THEN /\ records' = [records EXCEPT ![req[r].id].totalHours = @ + req[r].hours]
          /\ flightEntries' = [flightEntries EXCEPT ![req[r].id] =
                                 Append(@, [aircraft |-> req[r].aircraft,
                                            hours |-> req[r].hours])]
          /\ req' = [req EXCEPT ![r].pc = "afr_inc"]
     ELSE /\ records' = records
          /\ flightEntries' = flightEntries
          /\ req' = [req EXCEPT ![r] = Done(r, 404)]
  /\ UNCHANGED <<totalFlightHours, nextId, issued, matchVars, payVars, extras,
                 reqVars, rollupVars>>

\* addFlightRecord, lines 192-199.
AfrInc(r) ==
  /\ req[r].pc = "afr_inc"
  /\ IncTotalFlightHours(req[r].user, req[r].hours)
  /\ req' = [req EXCEPT ![r] = Done(r, 200)]
  /\ UNCHANGED <<records, nextId, issued, matchVars, payVars, docVars, reqVars, rollupVars>>

Step(r) ==
  \/ CreateInsert(r)
  \/ CreateInc(r)
  \/ UpdFind(r)
  \/ UpdWrite(r)
  \/ UpdInc(r)
  \/ DelFind(r)
  \/ DelDec(r)
  \/ DelRemove(r)
  \/ AfrUpdate(r)
  \/ AfrInc(r)

\* getWorkHistory, lines 62-80.
GetFind(r) ==
  /\ req[r].pc = "get_find"
  /\ req' = [req EXCEPT ![r] =
               Done(r, IF Matches(req[r].id, req[r].user) THEN 200 ELSE 404)]
  /\ UNCHANGED <<records, totalFlightHours, nextId, issued, matchVars, payVars,
                 docVars, reqVars, rollupVars>>

\* req.file, which addAchievement reads. The route runs uploadMultiple, the
\* array upload whose result createWorkHistory and updateWorkHistory read as
\* req.files; it leaves req.file undefined.
ReqFile(r) == FALSE

\* if (req.file) cleanupUploadedFiles(req.file), lines 223-225 and 234-236.
cleanupUploadedFile(r) ==
  uploads' = IF ReqFile(r) THEN [uploads EXCEPT ![r] = "removed"] ELSE uploads

\* addAchievement, lines 206-239: $push onto achievements.
AchUpdate(r) ==
  /\ req[r].pc = "ach_update"
  /\ IF Matches(req[r].id, req[r].user)
     THEN /\ extras' = [extras EXCEPT ![req[r].id].achievements = @ + 1]
          /\ req' = [req EXCEPT ![r] = Done(r, 200)]
          /\ uploads' = uploads
     ELSE /\ extras' = extras
          /\ req' = [req EXCEPT ![r] = Done(r, 404)]
          /\ cleanupUploadedFile(r)
  /\ UNCHANGED <<records, totalFlightHours, nextId, issued, matchVars, payVars,
                 flightEntries, before, rollupVars>>

\* addPerformanceRating, lines 242-268: $push onto performance.ratings.
RateUpdate(r) ==
  /\ req[r].pc = "rate_update"
  /\ IF Matches(req[r].id, req[r].user)
     THEN /\ extras' = [extras EXCEPT ![req[r].id].ratings = @ + 1]
          /\ req' = [req EXCEPT ![r] = Done(r, 200)]
     ELSE /\ extras' = extras
          /\ req' = [req EXCEPT ![r] = Done(r, 404)]
  /\ UNCHANGED <<records, totalFlightHours, nextId, issued, matchVars, payVars,
                 flightEntries, reqVars, rollupVars>>

\* The catch block of the handler: createWorkHistory (36-42) and
\* updateWorkHistory (132-137) remove req.files, addAchievement (233-238)
\* removes req.file, the other handlers only pass the error on.
CatchCleanup(r) ==
  IF req[r].op \in {"createWorkHistory", "updateWorkHistory"}
  THEN cleanupUploadedFiles(r)
  ELSE IF req[r].op = "addAchievement"
       THEN cleanupUploadedFile(r)
       ELSE uploads' = uploads

\* The record-store call the request is waiting for rejects: the call has no
\* effect, the catch block runs and next(error) answers 500.
StoreFails(r) ==
  /\ ~Free(r)
  /\ req' = [req EXCEPT ![r] = Done(r, 500)]
  /\ CatchCleanup(r)
  /\ UNCHANGED <<records, totalFlightHours, nextId, issued, matchVars, payVars,
                 docVars, before, rollupVars>>

\* ------------------------------------------------- similarity scoring
Roles == {"pilot", "engineer"}
Skills == {"navigation", "maintenance"}
Aircraft == {"B737"}

\* Lists as stored: an array may be empty and may repeat an entry.
ListsOver(S) == UNION {[1..n -> S] : n \in 0..MaxList}

NoProfile == [role |-> "pilot", skills |-> <<>>, aircraftTypes |-> <<>>]

NoSearchResp == [status |-> 0, userId |-> "", professionals |-> <<>>]

Range(list) == {list[i] : i \in 1..Len(list)}

\* A JavaScript number as the scoring produces it: NaN, Infinity, or the
\* exact ratio num/den (den > 0). Rounding of the binary representation is
\* not modelled.
NaN == [kind |-> "nan", num |-> 0, den |-> 1]
Infinity == [kind |-> "inf", num |-> 0, den |-> 1]
Number(n, d) == [kind |-> "num", num |-> n, den |-> d]

\* a / b on two non-negative integers.
Divide(a, b) ==
  IF b # 0 THEN Number(a, b)
  ELSE IF a = 0 THEN NaN ELSE Infinity

\* x * (n/d), with n/d > 0.
Times(x, n, d) ==
  IF x.kind = "num" THEN Number(x.num * n, x.den * d) ELSE x

\* x + y (no negative operands occur).
Plus(x, y) ==
  CASE x.kind = "nan" \/ y.kind = "nan" -> NaN
    [] x.kind = "inf" \/ y.kind = "inf" -> Infinity
    [] OTHER -> Number(x.num * y.den + y.num * x.den, x.den * y.den)

\* x > y; every comparison with NaN is false.
Greater(x, y) ==
  CASE x.kind = "nan" \/ y.kind = "nan" -> FALSE
    [] x.kind = "inf" -> y.kind # "inf"
    [] y.kind = "inf" -> FALSE
    [] OTHER -> x.num * y.den > y.num * x.den

\* list.filter(x => other.includes(x)).length
MatchCount(list, other) ==
  Cardinality({i \in 1..Len(list) : list[i] \in Range(other)})

\* getSimilarProfessionals, lines 281-290.
similarityScore(user, professional) ==
  LET skillsMatch == MatchCount(professional.skills, user.skills)
      aircraftMatch == MatchCount(professional.aircraftTypes, user.aircraftTypes)
  IN Plus(Plus(Times(Divide(skillsMatch, Len(user.skills)), 4, 10),
               Times(Divide(aircraftMatch, Len(user.aircraftTypes)), 4, 10)),
          IF professional.role = user.role THEN Number(2, 10) ELSE Number(0, 1))

SimilarFilterNoExclude(userId, p) ==
  \/ Range(profiles[p].skills) \cap Range(profiles[userId].skills) # {}
  \/ Range(profiles[p].aircraftTypes) \cap Range(profiles[userId].aircraftTypes) # {}
  \/ profiles[p].role = profiles[userId].role

\* getSimilarProfessionals, lines 268-275: the User.find filter.
SimilarFilter(userId, p) ==
  /\ p # userId
  /\ \/ Range(profiles[p].skills) \cap Range(profiles[userId].skills) # {}
     \/ Range(profiles[p].aircraftTypes) \cap Range(profiles[userId].aircraftTypes) # {}
     \/ profiles[p].role = profiles[userId].role

\* The order in which User.find returns documents.
UserOrder == <<"u1", "u2", "u3">>

Limit == 5

RECURSIVE Take(_, _)
Take(list, n) ==
  IF n = 0 \/ list = <<>> THEN <<>> ELSE <<Head(list)>> \o Take(Tail(list), n - 1)

\* User.find(filter).limit(5), lines 268-278.
FindSimilar(userId) ==
  Take(SelectSeq(UserOrder, LAMBDA p : SimilarFilter(userId, p)), Limit)

\* Array.prototype.sort with (a, b) => b.similarityScore - a.similarityScore:
\* stable, descending; a NaN difference counts as equal.
RECURSIVE InsertByScore(_, _)
InsertByScore(x, sorted) ==
  IF sorted = <<>> THEN <<x>>
  ELSE IF Greater(x.similarityScore, Head(sorted).similarityScore)
       THEN <<x>> \o sorted
       ELSE <<Head(sorted)>> \o InsertByScore(x, Tail(sorted))

RECURSIVE SortByScore(_)
SortByScore(list) ==
  IF list = <<>> THEN <<>>
  ELSE InsertByScore(list[Len(list)], SortByScore(SubSeq(list, 1, Len(list) - 1)))

\* getSimilarProfessionals, lines 258-308.
getSimilarProfessionals(userId) ==
  /\ searchResp' =
       IF userId \notin Users
       THEN [status |-> 404, userId |-> userId, professionals |-> <<>>]
       ELSE LET found == FindSimilar(userId)
                enhanced == [i \in 1..Len(found) |->
                               [id |-> found[i],
                                similarityScore |->
                                  similarityScore(profiles[userId], profiles[found[i]])]]
            IN [status |-> 200, userId |-> userId,
                professionals |-> SortByScore(enhanced)]
  /\ UNCHANGED <<profiles, whVars, payVars, docVars, reqVars, rollupVars>>

\* ------------------------------------------------------------ payroll
\* Day numbers; NaNDate is the time value of new Date(<unparseable>).
NaNDate == 0
Dates == 1..MaxDate

BaseAmounts == {0, 1000}
OvertimeAmounts == {0, 200}
\* <<allowances, bonuses>>
ExtraAmounts == {<<0, 0>>, <<100, 50>>}

\* config.supportedCurrencies, and the currencies a request may name.
SupportedCurrencies == {"USD", "EUR"}
Currencies == {"EUR", "XXX"}

PayrollBodies ==
  {[startDate |-> s, endDate |-> e, baseAmount |-> b, overtimeAmount |-> o,
    allowances |-> x[1], bonuses |-> x[2], currency |-> c] :
     s \in Dates \cup {NaNDate}, e \in Dates \cup {NaNDate}, b \in BaseAmounts,
     o \in OvertimeAmounts, x \in ExtraAmounts, c \in Currencies}

NoPayroll == [userId |-> "", base |-> 0, overtime |-> 0, allowances |-> 0, bonuses |-> 0,
              taxCents |-> 0, insuranceCents |-> 0, otherCents |-> 0,
              currency |-> "", payStatus |-> "", netCents |-> 0]

NoPayrollResp == [status |-> 0, user |-> "", body |-> <<>>, queried |-> FALSE,
                  flightHours |-> 0, payroll |-> NoPayroll]

\* new Date(startDate) >= new Date(endDate): false when either is invalid.
DateGreater(startDate, endDate) ==
  startDate # NaNDate /\ endDate # NaNDate /\ startDate > endDate

DateGreaterOrEqual(startDate, endDate) ==
  startDate # NaNDate /\ endDate # NaNDate /\ startDate >= endDate

\* The WorkHistory.find filter of generatePayroll, lines 92-96.
Overlapping(user, startDate, endDate) ==
  {i \in RecIds : /\ Matches(i, user)
                  /\ records[i].startDate <= endDate
                  /\ records[i].endDate >= startDate}

RECURSIVE SumRecords(_)
SumRecords(ids) ==
  IF ids = {} THEN 0
  ELSE LET i == CHOOSE x \in ids : TRUE
       IN records[i].totalHours + SumRecords(ids \ {i})

\* Amounts of money are held in hundredths where a rate applies (Cents); the
\* rounding of the binary representation is not modelled.
taxCentsOnBaseOnly(baseAmount, overtimeAmount) == 20 * baseAmount

\* (baseAmount + overtimeAmount) * 0.2, line 117.
taxCents(baseAmount, overtimeAmount) == 20 * (baseAmount + overtimeAmount)

\* (baseAmount + overtimeAmount) * 0.05, line 118.
insuranceCents(baseAmount, overtimeAmount) == 5 * (baseAmount + overtimeAmount)

\* new PayrollRecord(data), lines 7-30: data.flightHours is not kept, the
\* deductions default to 0.
PayrollRecord(data) ==
  [NoPayroll EXCEPT !.userId = data.userId,
                    !.base = data.baseAmount, !.overtime = data.overtimeAmount,
                    !.allowances = data.allowances, !.bonuses = data.bonuses,
                    !.currency = data.currency, !.payStatus = "pending"]

\* generatePayroll, lines 103-127.
Payroll(user, body, flightHours) ==
  LET payrollRecord == PayrollRecord(
        [userId |-> user, baseAmount |-> body.baseAmount,
         overtimeAmount |-> body.overtimeAmount, allowances |-> body.allowances,
         bonuses |-> body.bonuses, currency |-> body.currency,
         flightHours |-> flightHours])
      tax == taxCents(body.baseAmount, body.overtimeAmount)
      insurance == insuranceCents(body.baseAmount, body.overtimeAmount)
      grossAmount == body.baseAmount + body.overtimeAmount + body.allowances + body.bonuses
      totalDeductions == tax + insurance + payrollRecord.otherCents
  IN [payrollRecord EXCEPT !.taxCents = tax, !.insuranceCents = insurance,
                           !.netCents = 100 * grossAmount - totalDeductions]

\* generatePayroll, lines 74-136. A query carrying an invalid date is
\* answered by the record store either with an error or with no records.
generatePayroll(user, body) ==
  /\ \/ /\ DateGreaterOrEqual(body.startDate, body.endDate)
        /\ payrollResp' = [NoPayrollResp EXCEPT !.status = 400, !.user = user,
                                                !.body = body]
     \/ /\ ~DateGreaterOrEqual(body.startDate, body.endDate)
        /\ body.startDate # NaNDate /\ body.endDate # NaNDate
        /\ LET flightHours ==
                 SumRecords(Overlapping(user, body.startDate, body.endDate))
           IN payrollResp' = [status |-> 200, user |-> user, body |-> body,
                              queried |-> TRUE, flightHours |-> flightHours,
                              payroll |-> Payroll(user, body, flightHours)]
     \/ /\ body.startDate = NaNDate \/ body.endDate = NaNDate
        /\ \/ payrollResp' = [NoPayrollResp EXCEPT !.status = 500, !.user = user,
                                                   !.body = body, !.queried = TRUE]
           \/ payrollResp' = [status |-> 200, user |-> user, body |-> body,
                              queried |-> TRUE, flightHours |-> 0,
                              payroll |-> Payroll(user, body, 0)]
  /\ UNCHANGED <<whVars, matchVars, docVars, reqVars, rollupVars>>

\* ------------------------------------------------ aircraft-type search
AircraftTypes == {"B737", "A320"}

NoAircraftResp == [status |-> 0, aircraftType |-> "", count |-> 0,
                   professionals |-> <<>>]

\* The query default of limit, line 97; page defaults to 1, so skip is 0.
PageLimit == 10

\* User.find({aircraftTypes: aircraftType}): the profile's array holds it.
FliesType(user, aircraftType) == aircraftType \in Range(profiles[user].aircraftTypes)

\* .sort({totalFlightHours: -1}): descending; equal keys keep the order in
\* which the store returns them.
RECURSIVE InsertByHours(_, _)
InsertByHours(x, sorted) ==
  IF sorted = <<>> THEN <<x>>
  ELSE IF totalFlightHours[x] > totalFlightHours[Head(sorted)]
       THEN <<x>> \o sorted
       ELSE <<Head(sorted)>> \o InsertByHours(x, Tail(sorted))

RECURSIVE SortByHours(_)
SortByHours(list) ==
  IF list = <<>> THEN <<>>
  ELSE InsertByHours(list[Len(list)], SortByHours(SubSeq(list, 1, Len(list) - 1)))

\* WorkHistory.find({user, 'flightRecords.aircraftTypes.aircraft': aircraftType}),
\* lines 114-117: the user's records with at least one entry for the type.
HistoriesWith(user, aircraftType) ==
  {id \in RecIds : /\ Matches(id, user)
                   /\ \E i \in DOMAIN flightEntries[id] :
                        flightEntries[id][i].aircraft = aircraftType}

\* Lines 120-122: aircraftTypes.find(record => record.aircraft === aircraftType)
\* gives the first entry for the type; (aircraftRecord?.hours || 0).
aircraftRecordHours(entries, aircraftType) ==
  LET at == {i \in DOMAIN entries : entries[i].aircraft = aircraftType}
  IN IF at = {} THEN 0
     ELSE entries[CHOOSE i \in at : \A j \in at : i <= j].hours

\* Lines 119-123: workHistories.reduce(..., 0).
RECURSIVE ReduceHours(_, _)
ReduceHours(ids, aircraftType) ==
  IF ids = {} THEN 0
  ELSE LET id == CHOOSE x \in ids : TRUE
       IN aircraftRecordHours(flightEntries[id], aircraftType)
          + ReduceHours(ids \ {id}, aircraftType)

aircraftTypeHours(user, aircraftType) ==
  ReduceHours(HistoriesWith(user, aircraftType), aircraftType)

\* searchByAircraftType, lines 94-142, with the default page and limit. The
\* reads of one search see one stored state.
searchByAircraftType(aircraftType) ==
  /\ LET matching == SelectSeq(UserOrder, LAMBDA u : FliesType(u, aircraftType))
         page == Take(SortByHours(matching), PageLimit)
     IN aircraftResp' =
          [status |-> 200, aircraftType |-> aircraftType, count |-> Len(matching),
           professionals |->
             [i \in 1..Len(page) |->
                [id |-> page[i],
                 totalFlightHours |-> totalFlightHours[page[i]],
                 aircraftTypeHours |-> aircraftTypeHours(page[i], aircraftType)]]]
  /\ UNCHANGED <<whVars, matchVars, payVars, docVars, reqVars, statsResp>>

\* ------------------------------------------------- work-history stats
ZeroStats == [totalEmployers |-> 0, totalFlightHours |-> 0, avgRating |-> 0,
              totalAchievements |-> 0]

NoStatsResp == [status |-> 0, user |-> "", stats |-> ZeroStats]

\* $avg over '$performance.ratings.score', which is an array in every
\* document: the accumulator skips non-numeric operands and yields null.
Null == "null"

MatchStageAnyUser(user) == {id \in RecIds : records[id].exists}

\* { $match: { user: req.user._id } }, line 274.
MatchStage(user) == {id \in RecIds : records[id].exists /\ records[id].user = user}

RECURSIVE SumField(_, _)
SumField(ids, field) ==
  IF ids = {} THEN 0
  ELSE LET id == CHOOSE x \in ids : TRUE
       IN field[id] + SumField(ids \ {id}, field)

\* { $group: { _id: null, ... } }, lines 275-283: one group when at least one
\* document reaches the stage, none otherwise.
GroupStage(ids) ==
  IF ids = {} THEN <<>>
  ELSE <<[totalEmployers |-> Cardinality(ids),
          totalFlightHours |-> SumField(ids, [id \in RecIds |-> records[id].totalHours]),
          avgRating |-> Null,
          totalAchievements |-> SumField(ids, [id \in RecIds |-> extras[id].achievements])]>>

\* getWorkHistoryStats, lines 271-298: stats[0] || {zeros}.
getWorkHistoryStats(user) ==
  /\ LET stats == GroupStage(MatchStage(user))
     IN statsResp' = [status |-> 200, user |-> user,
                      stats |-> IF stats = <<>> THEN ZeroStats ELSE stats[1]]
  /\ UNCHANGED <<whVars, matchVars, payVars, docVars, reqVars, aircraftResp>>

\* The state of what the work-history requests add to the model's core.
AuxInit ==
  /\ flightEntries = [i \in RecIds |-> NoEntries]
  /\ extras = [i \in RecIds |-> NoExtras]
  /\ uploads = [r \in Slots |-> "none"]
  /\ before = [r \in Slots |-> NoSnapshot]
  /\ aircraftResp = NoAircraftResp
  /\ statsResp = NoStatsResp

\* The work-history state before any request.
WhInit ==
  /\ records = [i \in RecIds |-> NoRecord]
  /\ totalFlightHours = [u \in Users |-> 0]
  /\ req = [r \in Slots |-> Idle]
  /\ nextId = 1
  /\ issued = 0

Init ==
  /\ WhInit
  /\ profiles = [u \in Users |-> NoProfile]
  /\ searchResp = NoSearchResp
  /\ payrollResp = NoPayrollResp
  /\ AuxInit

\* Requests may overlap.
Next == \E r \in Slots : Receive(r) \/ Step(r)

Spec == Init /\ [][Next]_vars

\* Requests never overlap: one is received only when none is in flight.
SeqNext == \E r \in Slots : (Quiescent /\ Receive(r)) \/ Step(r)

SeqSpec == Init /\ [][SeqNext]_vars

\* Similarity requests over any stored profiles.
MatchInit ==
  /\ WhInit
  /\ profiles \in [Users -> [role : Roles, skills : ListsOver(Skills),
                             aircraftTypes : ListsOver(Aircraft)]]
  /\ searchResp = NoSearchResp
  /\ payrollResp = NoPayrollResp
  /\ AuxInit

MatchNext == \E userId \in Users \cup {"nobody"} : getSimilarProfessionals(userId)

MatchSpec == MatchInit /\ [][MatchNext]_vars

\* Payroll requests by user u1 over a stored record of u1's or of u2's.
PayrollInit ==
  /\ \E rec \in {NoRecord} \cup
                {Record(u, h, s, e) : u \in Clients, h \in 0..MaxHours,
                                      s \in Dates, e \in Dates} :
       /\ records = [i \in RecIds |-> IF i = 1 THEN rec ELSE NoRecord]
       /\ totalFlightHours =
            [u \in Users |-> IF rec.exists /\ rec.user = u THEN rec.totalHours ELSE 0]
       /\ nextId = IF rec.exists THEN 2 ELSE 1
       /\ issued = IF rec.exists THEN 1 ELSE 0
  /\ req = [r \in Slots |-> Idle]
  /\ profiles = [u \in Users |-> NoProfile]
  /\ searchResp = NoSearchResp
  /\ payrollResp = NoPayrollResp
  /\ AuxInit

PayrollNext == \E body \in PayrollBodies : generatePayroll("u1", body)

PayrollSpec == PayrollInit /\ [][PayrollNext]_vars

\* Two updateWorkHistory requests by the owner on one stored record are in
\* flight together; the profile's counter agrees with the record when they
\* arrive. Both bodies carry a non-zero flightRecords.totalHours.
RaceInit ==
  /\ \E o \in 0..MaxHours :
       /\ records = [i \in RecIds |->
                       IF i = 1 THEN Record("u1", o, 1, MaxDate)
                       ELSE NoRecord]
       /\ totalFlightHours = [u \in Users |-> IF u = "u1" THEN o ELSE 0]
  /\ req \in [Slots -> {[Idle EXCEPT !.op = "updateWorkHistory", !.user = "u1", !.id = 1,
                                      !.hasHours = TRUE, !.hours = h, !.pc = "upd_find"]
                          : h \in 1..MaxHours}]
  /\ nextId = 2
  /\ issued = 3
  /\ profiles = [u \in Users |-> NoProfile]
  /\ searchResp = NoSearchResp
  /\ payrollResp = NoPayrollResp
  /\ AuxInit

RaceNext == \E r \in Slots : UpdFind(r) \/ UpdWrite(r) \/ UpdInc(r)

RaceSpec == RaceInit /\ [][RaceNext]_vars

\* Profile u1 has two stored records and flies the B737; u2 flies both
\* types and has no record. Profile u1 adds two flight records, without overlap,
\* and the search and the stats of u1 and of u2 run at any time.
RollupInit ==
  /\ records = [i \in RecIds |-> IF i <= 2 THEN Record("u1", 0, 1, MaxDate)
                                 ELSE NoRecord]
  /\ totalFlightHours = [u \in Users |-> 0]
  /\ req = [r \in Slots |-> Idle]
  /\ nextId = 3
  /\ issued = MaxReqs - 2
  /\ profiles = [u \in Users |->
                   [NoProfile EXCEPT !.aircraftTypes =
                      CASE u = "u1" -> <<"B737">>
                        [] u = "u2" -> <<"B737", "A320">>
                        [] OTHER -> <<>>]]
  /\ searchResp = NoSearchResp
  /\ payrollResp = NoPayrollResp
  /\ AuxInit

RollupReceive(r) ==
  /\ Quiescent
  /\ ReceiveFrom(r, {"addFlightRecord"}, {"u1"}, AircraftTypes, {FALSE}, FALSE)

RollupNext ==
  \/ \E r \in Slots : RollupReceive(r) \/ AfrUpdate(r) \/ AfrInc(r)
  \/ \E aircraftType \in AircraftTypes : searchByAircraftType(aircraftType)
  \/ \E user \in Clients : getWorkHistoryStats(user)

RollupSpec == RollupInit /\ [][RollupNext]_vars

\* Profile u1 has one stored record, with one hour, and its counter agrees.
\* Requests with or without files arrive one after the other, and any
\* record-store call may fail.
FaultInit ==
  /\ records = [i \in RecIds |-> IF i = 1 THEN Record("u1", 1, 1, MaxDate)
                                 ELSE NoRecord]
  /\ totalFlightHours = [u \in Users |-> IF u = "u1" THEN 1 ELSE 0]
  /\ req = [r \in Slots |-> Idle]
  /\ nextId = 2
  /\ issued = 2
  /\ profiles = [u \in Users |-> NoProfile]
  /\ searchResp = NoSearchResp
  /\ payrollResp = NoPayrollResp
  /\ AuxInit

FaultReceive(r) ==
  /\ Quiescent
  /\ ReceiveFrom(r, Ops \cup {"addAchievement"}, Clients, {"B737"}, BOOLEAN, TRUE)

FaultNext ==
  \E r \in Slots : FaultReceive(r) \/ Step(r) \/ AchUpdate(r) \/ StoreFails(r)

FaultSpec == FaultInit /\ [][FaultNext]_vars

\* Profiles u1 and u2 own one stored record each; their requests on stored
\* records, by id, may overlap.
OwnInit ==
  /\ records = [i \in RecIds |-> IF i = 1 THEN Record("u1", 1, 1, MaxDate)
                                 ELSE IF i = 2 THEN Record("u2", 1, 1, MaxDate)
                                 ELSE NoRecord]
  /\ totalFlightHours = [u \in Users |-> IF u \in {"u1", "u2"} THEN 1 ELSE 0]
  /\ req = [r \in Slots |-> Idle]
  /\ nextId = 3
  /\ issued = 2
  /\ profiles = [u \in Users |-> NoProfile]
  /\ searchResp = NoSearchResp
  /\ payrollResp = NoPayrollResp
  /\ AuxInit

\* The routes that name a record by :id (part_001, lines 19-46).
ById == {"getWorkHistory", "updateWorkHistory", "deleteWorkHistory",
         "addFlightRecord", "addAchievement", "addPerformanceRating"}

OwnReceive(r) == ReceiveFrom(r, ById, Clients, {"B737"}, {FALSE}, FALSE)

OwnNext ==
  \E r \in Slots :
    \/ OwnReceive(r)
    \/ GetFind(r)
    \/ UpdFind(r)
    \/ UpdWrite(r)
    \/ UpdInc(r)
    \/ DelFind(r)
    \/ DelDec(r)
    \/ DelRemove(r)
    \/ AfrUpdate(r)
    \/ AfrInc(r)
    \/ AchUpdate(r)
    \/ RateUpdate(r)

OwnSpec == OwnInit /\ [][OwnNext]_vars

\* ------------------------------------------------------------- claims

\* C1: once every request has completed, with no two requests overlapping,
\* each profile's totalFlightHours equals the sum of totalHours over the
\* profile's stored work-history records.
CounterConsistent == Quiescent => \A u \in Users : totalFlightHours[u] = SumHours(u)

BothUpdatesDone == \A r \in Slots : req[r].pc = "done" /\ req[r].status = 200

\* C2: two overlapping updates of one record can leave the counter off the
\* stored sum. When both have completed: if they read the same original
\* totalHours, the counter exceeds the stored sum by (hours of the request
\* whose write was overwritten - original); if they read different
\* originals, counter and sum agree.
LostUpdateDrift ==
  BothUpdatesDone =>
    LET c == totalFlightHours["u1"]
        stored == SumHours("u1")
    IN IF req[1].orig = req[2].orig
       THEN \/ stored = req[1].hours /\ c - stored = req[2].hours - req[2].orig
            \/ stored = req[2].hours /\ c - stored = req[1].hours - req[1].orig
       ELSE c = stored

\* C2 witness: both updates completed, and the counter differs from the sum.
LostUpdateReached == BothUpdatesDone /\ totalFlightHours["u1"] # SumHours("u1")

\* C3: totalFlightHours is never negative, whatever the interleaving.
NonNegative == \A u \in Users : totalFlightHours[u] >= 0

\* ---- claims about getSimilarProfessionals; R is the reference profile,
\* ---- C a returned professional, s its similarityScore.
Scored == searchResp.status = 200 /\ searchResp.professionals # <<>>

Reference == profiles[searchResp.userId]

Returned == {searchResp.professionals[i] : i \in 1..Len(searchResp.professionals)}

Common(listR, listC) == Cardinality(Range(listR) \cap Range(listC))

SameRole(c) == IF profiles[c.id].role = Reference.role THEN 1 ELSE 0

\* s = n/d, for a non-negative n and a positive d.
ScoreIs(s, n, d) == s.kind = "num" /\ s.num * d = n * s.den

\* C4: the score is 0.4 |R.skills n C.skills| / |R.skills|
\* + 0.4 |R.aircraftTypes n C.aircraftTypes| / |R.aircraftTypes|
\* + 0.2 [R.role = C.role] over the sets of skills and aircraft types
\* (stated where both of R's sets are non-empty).
ScoreIsSetFormula ==
  Scored /\ Reference.skills # <<>> /\ Reference.aircraftTypes # <<>> =>
    \A c \in Returned :
      LET nS == Cardinality(Range(Reference.skills))
          nA == Cardinality(Range(Reference.aircraftTypes))
      IN ScoreIs(c.similarityScore,
                 4 * Common(Reference.skills, profiles[c.id].skills) * nA
                 + 4 * Common(Reference.aircraftTypes, profiles[c.id].aircraftTypes) * nS
                 + 2 * SameRole(c) * nS * nA,
                 10 * nS * nA)

\* C5: every score lies in [0, 1], and a professional whose skills,
\* aircraftTypes and role are those of R scores exactly 1 when R's skills
\* and aircraftTypes are non-empty.
ScoreInUnitInterval ==
  Scored =>
    \A c \in Returned :
      /\ c.similarityScore.kind = "num"
      /\ 0 <= c.similarityScore.num
      /\ c.similarityScore.num <= c.similarityScore.den
      /\ (/\ profiles[c.id] = Reference
          /\ Reference.skills # <<>>
          /\ Reference.aircraftTypes # <<>>) => ScoreIs(c.similarityScore, 1, 1)

\* The part of C5 about a professional identical to R, on its own.
IdenticalScoresOne ==
  Scored /\ Reference.skills # <<>> /\ Reference.aircraftTypes # <<>> =>
    \A c \in Returned : profiles[c.id] = Reference => ScoreIs(c.similarityScore, 1, 1)

\* C6: a term whose reference list is empty contributes 0, so the score is
\* the number made of the remaining terms.
EmptyTermIsZero ==
  Scored /\ (Reference.skills = <<>> \/ Reference.aircraftTypes = <<>>) =>
    \A c \in Returned :
      LET lS == IF Reference.skills = <<>> THEN 1 ELSE Len(Reference.skills)
          lA == IF Reference.aircraftTypes = <<>> THEN 1 ELSE Len(Reference.aircraftTypes)
          mS == MatchCount(profiles[c.id].skills, Reference.skills)
          mA == MatchCount(profiles[c.id].aircraftTypes, Reference.aircraftTypes)
      IN ScoreIs(c.similarityScore,
                 4 * mS * lA + 4 * mA * lS + 2 * SameRole(c) * lS * lA,
                 10 * lS * lA)

\* C7: no returned professional is R, and each shares a skill or an
\* aircraft type with R or has R's role.
ReturnedAreSimilarOthers ==
  searchResp.status = 200 =>
    \A c \in Returned :
      /\ c.id # searchResp.userId
      /\ \/ Range(profiles[c.id].skills) \cap Range(Reference.skills) # {}
         \/ Range(profiles[c.id].aircraftTypes) \cap Range(Reference.aircraftTypes) # {}
         \/ profiles[c.id].role = Reference.role

\* C7 witness: a response that returns one professional sharing a skill
\* with R and leaves out another that matches nothing, R having a skill
\* and its own role in common with itself.
SimilarReturnedOtherDropped ==
  /\ Scored
  /\ Reference.skills # <<>>
  /\ \E c \in Returned : Range(profiles[c.id].skills) \cap Range(Reference.skills) # {}
  /\ \E u \in Users \ {searchResp.userId} : \A c \in Returned : c.id # u

\* ---- claims about generatePayroll
PayrollSent == payrollResp.status = 200

\* C8: a generated record has tax = 0.20 (base + overtime), insurance =
\* 0.05 (base + overtime), other = 0 and netAmount = (base + overtime +
\* allowances + bonuses) - (tax + insurance + other), with the earnings and
\* currency of the request: it is a function of the request alone. For
\* 1000, 200, 100, 50 that is tax 240, insurance 60, net 1050.
PayrollFormula ==
  PayrollSent =>
    LET b == payrollResp.body
        p == payrollResp.payroll
    IN /\ p.base = b.baseAmount /\ p.overtime = b.overtimeAmount
       /\ p.allowances = b.allowances /\ p.bonuses = b.bonuses
       /\ p.currency = b.currency /\ p.userId = payrollResp.user
       /\ p.taxCents = 20 * (b.baseAmount + b.overtimeAmount)
       /\ p.insuranceCents = 5 * (b.baseAmount + b.overtimeAmount)
       /\ p.otherCents = 0
       /\ p.netCents =
            100 * (b.baseAmount + b.overtimeAmount + b.allowances + b.bonuses)
            - (p.taxCents + p.insuranceCents + p.otherCents)
       /\ (b.baseAmount = 1000 /\ b.overtimeAmount = 200
           /\ b.allowances = 100 /\ b.bonuses = 50)
          => p.taxCents = 24000 /\ p.insuranceCents = 6000 /\ p.netCents = 105000

\* C8 witness: the example request answered with net 1050 while the user
\* has flight hours in the period.
ExamplePayrollWithHistory ==
  /\ PayrollSent
  /\ payrollResp.body.baseAmount = 1000 /\ payrollResp.body.overtimeAmount = 200
  /\ payrollResp.body.allowances = 100 /\ payrollResp.body.bonuses = 50
  /\ payrollResp.payroll.netCents = 105000
  /\ payrollResp.flightHours > 0

\* C9: a request whose startDate is not before its endDate is answered
\* with the 400 validation error: no payroll is sent, the record store is
\* not queried and no stored record or counter changes.
InvalidRangeRejected ==
  [][(/\ payrollResp'.body.startDate \in Dates
      /\ payrollResp'.body.endDate \in Dates
      /\ payrollResp'.body.startDate >= payrollResp'.body.endDate)
     => /\ payrollResp'.status = 400
        /\ ~payrollResp'.queried
        /\ payrollResp'.payroll = NoPayroll
        /\ UNCHANGED <<records, totalFlightHours, profiles>>]_vars

\* C9 witness: a request with startDate = endDate was refused while the
\* user has a stored record.
EqualDatesRefused ==
  /\ payrollResp.status = 400
  /\ payrollResp.body.startDate = payrollResp.body.endDate
  /\ records[1].exists /\ records[1].user = payrollResp.user

\* C10: a request naming a currency outside the supported set is refused
\* with a validation error and no payroll record (stated for requests whose
\* dates are valid and in order, so that nothing else refuses them).
UnsupportedCurrencyRejected ==
  (/\ payrollResp.status # 0
   /\ payrollResp.body.startDate \in Dates /\ payrollResp.body.endDate \in Dates
   /\ payrollResp.body.startDate < payrollResp.body.endDate
   /\ payrollResp.body.currency \notin SupportedCurrencies)
  => payrollResp.status = 400 /\ payrollResp.payroll = NoPayroll
\* Hours of the entries of one record that name the aircraft type.
RECURSIVE EntryHours(_, _)
EntryHours(entries, aircraftType) ==
  IF entries = <<>> THEN 0
  ELSE (IF Head(entries).aircraft = aircraftType THEN Head(entries).hours ELSE 0)
       + EntryHours(Tail(entries), aircraftType)

RECURSIVE AllEntryHoursOver(_, _, _)
AllEntryHoursOver(ids, user, aircraftType) ==
  IF ids = {} THEN 0
  ELSE LET id == CHOOSE x \in ids : TRUE
       IN (IF records[id].exists /\ records[id].user = user
           THEN EntryHours(flightEntries[id], aircraftType) ELSE 0)
          + AllEntryHoursOver(ids \ {id}, user, aircraftType)

\* C11: every search by aircraft type answers, for each professional it
\* returns, an aircraftTypeHours equal to the sum of hours over all the
\* aircraftTypes entries, in all of that profile's stored records, that name
\* the searched type; 0 when there is none. Stated for searches that run
\* while no request is in flight, over entries that all carry positive hours.
AircraftHoursSumAllEntries ==
  [][/\ aircraftResp' # aircraftResp
     /\ Quiescent
     /\ \A id \in RecIds : \A i \in DOMAIN flightEntries[id] :
          flightEntries[id][i].hours > 0
     =>
       \A i \in DOMAIN aircraftResp'.professionals :
         aircraftResp'.professionals[i].aircraftTypeHours =
           AllEntryHoursOver(RecIds, aircraftResp'.professionals[i].id,
                             aircraftResp'.aircraftType)]_vars

\* C12: getWorkHistoryStats for a profile with no stored work-history record
\* responds successfully with totalEmployers, totalFlightHours, avgRating and
\* totalAchievements all 0.
StatsOfNoRecordsAreZero ==
  [][/\ statsResp' # statsResp
     /\ \A id \in RecIds : ~(records[id].exists /\ records[id].user = statsResp'.user)
     => /\ statsResp'.status = 200
        /\ statsResp'.stats.totalEmployers = 0
        /\ statsResp'.stats.totalFlightHours = 0
        /\ statsResp'.stats.totalAchievements = 0
        /\ statsResp'.stats.avgRating = 0]_vars

\* u2, who has no record, has been answered zeros while u1's records hold
\* hours.
NoRecordStatsAnswered ==
  /\ statsResp.status = 200
  /\ statsResp.user = "u2"
  /\ statsResp.stats = ZeroStats
  /\ \A id \in RecIds : ~(records[id].exists /\ records[id].user = "u2")
  /\ \E id \in RecIds : records[id].exists /\ records[id].user = "u1"
                        /\ records[id].totalHours > 0

\* C13: in createWorkHistory, updateWorkHistory and addAchievement, a request
\* that carried uploaded files and is answered with an error (the target was
\* not found, or a record-store call failed) has had its files removed by the
\* time the error is passed on.
FailedUploadsCleaned ==
  \A r \in Slots :
    /\ req[r].pc = "done"
    /\ req[r].op \in {"createWorkHistory", "updateWorkHistory", "addAchievement"}
    /\ req[r].status \in {404, 500}
    => uploads[r] # "stored"

\* C14: a createWorkHistory, updateWorkHistory, deleteWorkHistory or
\* addFlightRecord request answered 500 because a record-store call failed
\* leaves the stored records and counters as they were when it arrived.
FailedRequestLeavesNoTrace ==
  [][\A r \in Slots :
       /\ ~Free(r)
       /\ req'[r].pc = "done"
       /\ req'[r].status = 500
       /\ req[r].op \in {"createWorkHistory", "updateWorkHistory", "deleteWorkHistory",
                         "addFlightRecord"}
       => /\ records' = before[r].records
          /\ totalFlightHours' = before[r].totalFlightHours]_vars

\* The slot whose request takes the step.
Stepped(r) == ~Free(r) /\ req'[r] # req[r]

====
